---- MODULE Spec2Model ----
(***************************************************************************)
(* The per-chat playback coordinator of the Alice music bot                *)
(* (src/modules/player.py, class MusicPlayer).                             *)
(*                                                                         *)
(* Every coroutine of MusicPlayer runs on one asyncio event loop: the code *)
(* between two awaits on a collaborator (extract_info, join_group_call,    *)
(* change_stream, leave_group_call of the transport) is atomic, and at     *)
(* each such await any other handler may run.  One action of this module   *)
(* is one such atomic piece: the start of a handler up to its first await, *)
(* or the return of an await up to the next await or the handler's return. *)
(* The database write of _stream_song is synchronous (db.get_cursor is a   *)
(* plain context manager), so it is part of the piece that follows         *)
(* change_stream.                                                          *)
(***************************************************************************)
EXTENDS Integers, Sequences, FiniteSets, Bags, TLC

\* ---------------------------------------------------------------- bounds
NumChats == 2        \* chat identifiers 1..NumChats
NumTracks == 2       \* distinct tracks the resolver can return
MaxTasks == 2        \* handlers in flight at the same time (first workload)
MaxOps == 4          \* handlers called in a run of a counted workload

\* ------------------------------------------------------- program constants
MaxQueued == 10      \* player.py:109, "Playlist is full (max 10 songs)"

Chats == 1..NumChats
Tracks == 1..NumTracks
NoSong == 0          \* Python None for current_song / a failed extract_info

\* The environment of one run: which tracks the resolver returns, which
\* chats send commands, how many handlers are in flight at the same time and
\* whether the number of handlers called is counted (and then at most
\* MaxOps) or unlimited.  In the first workload one chat's playlist fills up
\* under any number of commands; in the other two a few commands race in
\* pairs, over distinct tracks on one chat and over several chats.
Workloads ==
    { [tracks |-> {1}, chats |-> {1}, tasks |-> MaxTasks, counted |-> FALSE],
      [tracks |-> Tracks, chats |-> {1}, tasks |-> 2, counted |-> TRUE],
      [tracks |-> {1}, chats |-> Chats, tasks |-> 2, counted |-> TRUE] }

VARIABLES
    active_calls,    \* MusicPlayer.active_calls: chat -> entry
    task,            \* the handlers in flight: a bag of handler records
    nops,            \* handlers started so far, in a counted workload
    workload,        \* the environment of this run
    accepted,        \* the transport: chat -> the track of its active stream
    playlists,       \* table playlists: <<user_id, playlist_name>> -> songs
    admins,          \* table admins: rows [user_id, promoted_by]
    reply            \* the last call of the playlist or admin manager and
                     \* the value it returned

store == <<playlists, admins, reply>>

vars == <<active_calls, task, nops, workload, accepted, playlists, admins, reply>>

\* The tables are empty and no manager has been called.
NoReply == [op |-> "none"]
StoreUntouched ==
    /\ playlists = <<>>
    /\ admins = {}
    /\ reply = NoReply

\* ------------------------------------------------------------ registry
\* `chat_id not in self.active_calls`
NoEntry == [present |-> FALSE, current_song |-> NoSong, playlist |-> <<>>]

\* {"current_song": None, "playlist": []}
FreshEntry == [present |-> TRUE, current_song |-> NoSong, playlist |-> <<>>]

\* `if chat_id not in self.active_calls:` (skip_song, line 197)
NotRegistered_never(entry) == FALSE

NotRegistered(entry) == ~entry.present

\* `del self.active_calls[chat_id]` (line 78)
WithoutEntry_all(reg, c) == [d \in DOMAIN reg |-> NoEntry]

WithoutEntry(reg, c) == [reg EXCEPT ![c] = NoEntry]

\* The registry after join_group_call: line 104 stores a fresh entry when it
\* returned True, line 103 returns when it returned False.
AfterJoin_always(reg, c, ok) == [reg EXCEPT ![c] = FreshEntry]

AfterJoin(reg, c, ok) == IF ok THEN [reg EXCEPT ![c] = FreshEntry] ELSE reg

\* `if self.active_calls[chat_id]["current_song"]:`
HasCurrent_entry(entry) == entry.present

HasCurrent(entry) == entry.current_song # NoSong

\* `len(self.active_calls[chat_id]["playlist"]) >= 10`
PlaylistIsFull_gt(entry) == Len(entry.playlist) > MaxQueued

PlaylistIsFull(entry) == Len(entry.playlist) >= MaxQueued

\* `self.active_calls[chat_id]["playlist"].append({...})`
AppendSong(q, song) == Append(q, song)

\* `next_song = self.active_calls[chat_id]["playlist"].pop(0)`
NextSong_last(q) == q[Len(q)]

NextSong(q) == Head(q)
AfterPop(q) == Tail(q)

\* -------------------------------------------------------------- results
Result(tag, song) == [tag |-> tag, song |-> song]
NoResult == Result("none", NoSong)

\* stop_playback, line 181: the value it returns once leave_group_call is
\* over, whether the transport's leave returned (ok) or raised.
StopResult(ok) == Result("Stopped", NoSong)

\* -------------------------------------------------------------- handlers
\* A handler in flight: the coroutine of one command (op, chat), the await it
\* is suspended at (pc), the song it resolved or popped (song) and the value
\* its outermost call will return (ret).  Handlers carry no identity, so the
\* handlers in flight form a bag.
\*
\* The other fields are bookkeeping of the collaborator calls of the handler.
\* `streamed`, `joined` and `left` say whether it called change_stream,
\* join_group_call and leave_group_call, `sok` whether some change_stream
\* returned, `clean` whether no collaborator has failed on it so far;
\* `resolves` counts its extract_info calls;
\* `acc` says that the transport has accepted the change_stream call the
\* handler is suspended in; `crossed` that a stop deleted the chat's entry
\* while the handler, alone on the chat with that stop, was suspended in
\* change_stream (both kept in the counted workloads only);
\* `overlap` says whether another handler of the chat has been in flight
\* with it; `nstream` counts its change_stream calls and `n0` is the length
\* of the playlist when its first _stream_song began, both kept only while
\* `overlap` is FALSE (with plays appending while a chain of failures pops,
\* the count has no bound); `had` says whether the chat had an entry when
\* the handler was called; `removed` and `peer` are set by
\* leave_group_call_returns and Return.
NewTask ==
    [op |-> "none", chat |-> 0, pc |-> "idle", song |-> NoSong,
     ret |-> NoResult,
     joined |-> FALSE, streamed |-> FALSE, left |-> FALSE, sok |-> FALSE,
     clean |-> TRUE, resolves |-> 0, nstream |-> 0, n0 |-> 0,
     overlap |-> FALSE, had |-> FALSE, removed |-> FALSE, peer |-> NoSong,
     acc |-> FALSE, crossed |-> FALSE]

Handlers == BagToSet(task)

Put(B, tk) == B (+) SetToBag({tk})
Take(B, tk) == B (-) SetToBag({tk})

\* The bag of the records f[tk] for the handlers tk of bag B.
MapBag(B, f) ==
    [y \in {f[x] : x \in DOMAIN B} |->
        BagCardinality([x \in {z \in DOMAIN B : f[z] = y} |-> B[x]])]

InFlight(tk) == tk.pc # "done"

\* The handlers of chat c in bag B.
BagOf(c, B) == [x \in {z \in DOMAIN B : z.chat = c} |-> B[x]]

Streams(tk) == IF tk.overlap THEN 0 ELSE tk.nstream + 1
Alone(tk, n) == IF tk.overlap THEN 0 ELSE n
Overlapped(tk) == [tk EXCEPT !.overlap = TRUE, !.nstream = 0, !.n0 = 0]

\* The handlers of chat c that are suspended at an await.
HandlersOf(c) == {tk \in Handlers : InFlight(tk) /\ tk.chat = c}

\* A new handler tk for chat c: every handler of c it meets in flight
\* overlaps with it.
Started(c, tk) ==
    LET Meet == [x \in DOMAIN task |->
                    IF InFlight(x) /\ x.chat = c THEN Overlapped(x) ELSE x]
    IN Put(MapBag(task, Meet),
           IF HandlersOf(c) # {} THEN Overlapped(tk) ELSE tk)

\* A handler that has returned is observed (Return) before anything else
\* runs: its return belongs to its last atomic piece.
Delivered == \A tk \in Handlers : tk.pc # "done"

CanStart(c) ==
    /\ Delivered
    /\ BagCardinality(task) < workload.tasks
    /\ c \in workload.chats
    /\ workload.counted => nops < MaxOps

Count == IF workload.counted THEN nops + 1 ELSE nops

\* skip_song, lines 196-214, up to its await (or its return): the registry
\* and the handler record it leaves.  `top` is TRUE when skip_song is the
\* handler itself and FALSE when _stream_song's except clause calls it, in
\* which case its return value is dropped.
SkipStep(reg, tk, top) ==
    LET c == tk.chat IN
    IF NotRegistered(reg[c])
    THEN [reg |-> reg,
          tk  |-> [tk EXCEPT !.pc = "done",
                             !.ret = IF top THEN Result("NoActiveCall", NoSong) ELSE @]]
    ELSE IF reg[c].playlist = <<>>
    THEN [reg |-> reg,
          tk  |-> [tk EXCEPT !.pc = "leave",
                             !.left = TRUE,
                             !.ret = IF top THEN Result("QueueEmpty", NoSong) ELSE @]]
    ELSE [reg |-> [reg EXCEPT ![c].playlist = AfterPop(@)],
          tk  |-> [tk EXCEPT !.pc = "stream",
                             !.song = NextSong(reg[c].playlist),
                             !.streamed = TRUE,
                             !.nstream = Streams(tk),
                             !.n0 = IF top THEN Alone(tk, Len(AfterPop(reg[c].playlist))) ELSE @,
                             !.ret = IF top THEN Result("Skipped", NextSong(reg[c].playlist)) ELSE @]]

\* play_song, lines 106-129, up to the await in _stream_song (or the return).
PlayStep(reg, tk, info) ==
    LET c == tk.chat IN
    IF HasCurrent(reg[c])
    THEN IF PlaylistIsFull(reg[c])
         THEN [reg |-> reg,
               tk  |-> [tk EXCEPT !.pc = "done", !.ret = Result("QueueFull", NoSong)]]
         ELSE [reg |-> [reg EXCEPT ![c].playlist = AppendSong(@, info)],
               tk  |-> [tk EXCEPT !.pc = "done", !.ret = Result("Queued", info)]]
    ELSE [reg |-> reg,
          tk  |-> [tk EXCEPT !.pc = "stream",
                             !.song = info,
                             !.streamed = TRUE,
                             !.nstream = Streams(tk),
                             !.n0 = Alone(tk, Len(reg[c].playlist)),
                             !.ret = Result("NowPlaying", info)]]

\* play_song, lines 97-98: extract_info returned None and play_song returns;
\* it does not call extract_info again.
ResolveFailed_retry(tk) ==
    IF tk.resolves < 2
    THEN [tk EXCEPT !.clean = FALSE, !.resolves = @ + 1]
    ELSE [tk EXCEPT !.pc = "done", !.clean = FALSE,
                    !.ret = Result("ResolutionError", NoSong)]

ResolveFailed(tk) ==
    [tk EXCEPT !.pc = "done", !.clean = FALSE,
               !.ret = Result("ResolutionError", NoSong)]

\* _stream_song, lines 165-167: every exception of change_stream, of the
\* write of current_song and of the database write is caught and answered
\* with skip_song, whose return value is dropped.
OnException_reraise(reg, tk) ==
    [reg |-> reg,
     tk  |-> [tk EXCEPT !.pc = "done", !.ret = Result("Raised", NoSong)]]

OnException(reg, tk) == SkipStep(reg, tk, FALSE)

\* _stream_song from the return of change_stream (lines 148-167): the
\* registry and the handler record it leaves.  `ok` says whether
\* change_stream returned, `dbok` whether the database write succeeded.
StreamStep(reg, tk, ok, dbok) ==
    LET c == tk.chat
        written == ok /\ reg[c].present
        tk1 == [tk EXCEPT !.sok = @ \/ ok, !.clean = @ /\ written /\ dbok,
                          !.acc = FALSE]
        reg1 == IF written
                THEN [reg EXCEPT ![c].current_song = tk.song]
                ELSE reg
    IN IF written /\ dbok
       THEN [reg |-> reg1, tk |-> [tk1 EXCEPT !.pc = "done"]]
       ELSE OnException(reg1, tk1)

\* leave_group_call from the return of the transport's leave (lines 77-80)
\* and the return of stop_playback (line 181) or skip_song (line 202).
LeaveStep(reg, tk, ok) ==
    [reg |-> IF ok THEN WithoutEntry(reg, tk.chat) ELSE reg,
     tk  |-> [tk EXCEPT !.pc = "done", !.clean = @ /\ ok,
                        !.ret = IF tk.op = "stop" THEN StopResult(ok) ELSE @]]

\* The transport's active stream after change_stream returned (ok) or
\* raised on handler tk: the track of tk once the transport has accepted
\* the call.
AfterStream(act, tk, ok) ==
    IF ok /\ ~tk.acc THEN [act EXCEPT ![tk.chat] = tk.song] ELSE act

\* join_group_call starts the call with the silent stream (lines 59-60) and
\* leave_group_call ends the chat's stream.
Silent(act, c, ok) == IF ok THEN [act EXCEPT ![c] = NoSong] ELSE act

Init ==
    /\ active_calls = [c \in Chats |-> NoEntry]
    /\ task = EmptyBag
    /\ nops = 0
    /\ workload \in Workloads
    /\ accepted = [c \in Chats |-> NoSong]
    /\ StoreUntouched

\* play_song is called and awaits extract_info (lines 94-96).
play_song(c) ==
    /\ CanStart(c)
    /\ task' = Started(c, [NewTask EXCEPT !.op = "play", !.chat = c, !.pc = "resolve",
                                          !.resolves = 1,
                                          !.had = active_calls[c].present])
    /\ nops' = Count
    /\ UNCHANGED <<active_calls, workload, accepted, store>>

\* extract_info returns song_info, or None when nothing was found or
\* yt_dlp raised (fetcher.py:83-85); play_song continues to line 102 or 125.
extract_info_returns(tk, info) ==
    /\ Delivered
    /\ tk.pc = "resolve"
    /\ LET c == tk.chat
           r == PlayStep(active_calls, tk, info)
       IN IF info = NoSong
          THEN /\ task' = Put(Take(task, tk), ResolveFailed(tk))
               /\ UNCHANGED active_calls
          ELSE IF ~active_calls[c].present
          THEN /\ task' = Put(Take(task, tk),
                              [tk EXCEPT !.pc = "join", !.song = info, !.joined = TRUE])
               /\ UNCHANGED active_calls
          ELSE /\ task' = Put(Take(task, tk), r.tk)
               /\ active_calls' = r.reg
    /\ UNCHANGED <<nops, workload, accepted, store>>

\* join_group_call returns True or False (lines 56-71); on True play_song
\* stores a fresh entry (line 104) and goes on at line 107.
join_group_call_returns(tk, ok) ==
    /\ Delivered
    /\ tk.pc = "join"
    /\ LET c == tk.chat
           reg == AfterJoin(active_calls, c, ok)
           r == PlayStep(reg, tk, tk.song)
       IN IF ~ok
          THEN /\ task' = Put(Take(task, tk),
                              [tk EXCEPT !.pc = "done", !.clean = FALSE,
                                         !.ret = Result("NoActiveCall", NoSong)])
               /\ active_calls' = reg
          ELSE /\ task' = Put(Take(task, tk), r.tk)
               /\ active_calls' = r.reg
    /\ accepted' = Silent(accepted, tk.chat, ok)
    /\ UNCHANGED <<nops, workload, store>>

\* The transport accepts the change_stream call of handler tk while another
\* change_stream call for the chat is pending: the two calls need not
\* return in the order in which the transport took them.  (With no other
\* call pending, and in the workload that fills the playlist, the
\* acceptance is part of change_stream_returns.)
change_stream_accepted(tk) ==
    /\ Delivered
    /\ workload.counted
    /\ tk.pc = "stream" /\ ~tk.acc
    /\ \E x \in DOMAIN Take(task, tk) : x.chat = tk.chat /\ x.pc = "stream"
    /\ task' = Put(Take(task, tk), [tk EXCEPT !.acc = TRUE])
    /\ accepted' = [accepted EXCEPT ![tk.chat] = tk.song]
    /\ UNCHANGED <<active_calls, nops, workload, store>>

\* change_stream returns or raises (_stream_song, lines 137-167).  On return
\* line 148 writes current_song (KeyError when the entry is gone) and the
\* database write follows; any exception of the three runs skip_song.
change_stream_returns(tk, ok, dbok) ==
    /\ Delivered
    /\ tk.pc = "stream"
    /\ tk.acc => ok
    /\ LET r == StreamStep(active_calls, tk, ok, dbok)
       IN /\ task' = Put(Take(task, tk), r.tk)
          /\ active_calls' = r.reg
    /\ accepted' = AfterStream(accepted, tk, ok)
    /\ UNCHANGED <<nops, workload, store>>

\* stop_playback is called and awaits the transport's leave_group_call
\* (lines 179-180, 75-76); leave_group_call_returns holds its return.
stop_playback(c) ==
    /\ CanStart(c)
    /\ task' = Started(c, [NewTask EXCEPT !.op = "stop", !.chat = c, !.pc = "leave",
                                          !.left = TRUE,
                                          !.had = active_calls[c].present])
    /\ nops' = Count
    /\ UNCHANGED <<active_calls, workload, accepted, store>>

\* The transport's leave_group_call returns or raises (lines 76-80); the
\* entry is deleted only when it returned.  Play handlers of the chat that
\* are suspended in extract_info while a stop deletes the entry are marked
\* (`removed`).
leave_group_call_returns(tk, ok) ==
    /\ Delivered
    /\ tk.pc = "leave"
    /\ LET c == tk.chat
           gone == ok /\ active_calls[c].present /\ tk.op = "stop"
           rest == Take(task, tk)
           Mark == [x \in DOMAIN rest |->
                      IF gone /\ x.pc = "resolve" /\ x.chat = c
                      THEN [x EXCEPT !.removed = TRUE]
                      ELSE IF /\ workload.counted
                              /\ gone /\ x.pc = "stream" /\ x.chat = c
                              /\ BagCardinality(BagOf(c, rest)) = 1
                      THEN [x EXCEPT !.crossed = TRUE]
                      ELSE x]
           r == LeaveStep(active_calls, tk, ok)
       IN /\ active_calls' = r.reg
          /\ task' = Put(MapBag(rest, Mark), r.tk)
    /\ accepted' = Silent(accepted, tk.chat, ok)
    /\ UNCHANGED <<nops, workload, store>>

\* skip_song is called (lines 196-214).
skip_song(c) ==
    /\ CanStart(c)
    /\ LET tk == [NewTask EXCEPT !.op = "skip", !.chat = c,
                                 !.had = active_calls[c].present]
           r == SkipStep(active_calls, tk, TRUE)
       IN /\ task' = Started(c, r.tk)
          /\ active_calls' = r.reg
    /\ nops' = Count
    /\ UNCHANGED <<workload, accepted, store>>

\* The transport reports the end of the stream (lines 230-233).
on_stream_end_stop(c) ==
    /\ CanStart(c)
    /\ task' = Started(c, [NewTask EXCEPT !.op = "stream_end", !.chat = c, !.pc = "leave",
                                          !.left = TRUE,
                                          !.had = active_calls[c].present])
    /\ nops' = Count
    /\ UNCHANGED <<active_calls, workload, accepted, store>>

on_stream_end(c) ==
    /\ CanStart(c)
    /\ LET tk == [NewTask EXCEPT !.op = "stream_end", !.chat = c,
                                 !.had = active_calls[c].present]
           r == SkipStep(active_calls, tk, TRUE)
       IN /\ task' = Started(c, r.tk)
          /\ active_calls' = r.reg
    /\ nops' = Count
    /\ UNCHANGED <<workload, accepted, store>>

\* The handler's result has been delivered to its caller.  The play handlers
\* of the chat that were called while it had no entry keep the track of
\* another such handler that returns with it and on which no collaborator
\* failed (`peer`).
Return(tk) ==
    /\ tk.pc = "done"
    /\ LET rest == Take(task, tk)
           Tell == [x \in DOMAIN rest |->
                      IF /\ tk.op = "play" /\ tk.clean /\ ~tk.had
                         /\ x.op = "play" /\ x.chat = tk.chat /\ ~x.had
                      THEN [x EXCEPT !.peer = tk.ret.song] ELSE x]
       IN task' = MapBag(rest, Tell)
    /\ UNCHANGED <<active_calls, nops, workload, accepted, store>>

Next ==
    \/ \E c \in Chats : play_song(c)
    \/ \E tk \in Handlers, info \in workload.tracks \cup {NoSong} : extract_info_returns(tk, info)
    \/ \E tk \in Handlers, ok \in BOOLEAN : join_group_call_returns(tk, ok)
    \/ \E tk \in Handlers : change_stream_accepted(tk)
    \/ \E tk \in Handlers, ok \in BOOLEAN, dbok \in BOOLEAN : change_stream_returns(tk, ok, dbok)
    \/ \E c \in Chats : stop_playback(c)
    \/ \E tk \in Handlers, ok \in BOOLEAN : leave_group_call_returns(tk, ok)
    \/ \E c \in Chats : skip_song(c)
    \/ \E c \in Chats : on_stream_end(c)
    \/ \E tk \in Handlers : Return(tk)

Spec == Init /\ [][Next]_vars

TypeOK ==
    /\ \A c \in Chats :
          /\ active_calls[c].present \in BOOLEAN
          /\ active_calls[c].current_song \in Tracks \cup {NoSong}
          /\ active_calls[c].playlist \in Seq(Tracks)
          /\ ~active_calls[c].present => active_calls[c] = NoEntry
    /\ IsABag(task)
    /\ BagCardinality(task) <= MaxTasks
    /\ \A tk \in Handlers : tk.pc \in {"resolve", "join", "stream", "leave", "done"}
    /\ nops \in 0..MaxOps
    /\ accepted \in [Chats -> Tracks \cup {NoSong}]

\* ===================================================================
\* The playlist store (src/modules/playlist.py, class PlaylistManager)
\* ===================================================================
\* No method of PlaylistManager awaits anything: each call is one step.  A
\* song is the dict {title, url, duration, added_at}; the store compares
\* songs by url only (line 95) and json.dumps / json.loads give the same
\* list back, so a song is modelled by its url.

NumUsers == 2        \* users 1..NumUsers of the playlist store
NumNames == 6        \* playlist names 1..NumNames
MaxEdit == 2         \* songs (and urls) of the playlist that is edited

MaxPlaylists == 5    \* playlist.py:29
MaxSongs == 10       \* playlist.py:88

Users == 1..NumUsers
Names == 1..NumNames

\* The environment of one run of the store.  In the first the users create
\* and delete playlists (the first user under any name, the others under
\* one); in the second one playlist is filled, each add_to_playlist
\* bringing the next new url or one that is already there; in the third a
\* playlist of at most MaxEdit songs is added to, reordered and cut.
PlaylistWorkloads ==
    { [kind |-> "names", users |-> Users, urls |-> {}],
      [kind |-> "fill", users |-> {1}, urls |-> 1..(MaxSongs + 1)],
      [kind |-> "edit", users |-> {1}, urls |-> 1..MaxEdit] }

NamesOf(u) == IF workload.kind = "names" /\ u = 1 THEN Names ELSE {1}

Rows == DOMAIN playlists
Exists(u, n) == <<u, n>> \in Rows

\* SELECT COUNT(*) FROM playlists WHERE user_id = %s
CountOf(u) == Cardinality({k \in Rows : k[1] = u})

\* `result['count'] >= 5`
AtLimit_gt(count) == count > MaxPlaylists

AtLimit(count) == count >= MaxPlaylists

\* The row of (u, n) written with songs q / deleted.
WithRow(u, n, q) == [k \in Rows \cup {<<u, n>>} |-> IF k = <<u, n>> THEN q ELSE playlists[k]]
WithoutRow(u, n) == [k \in Rows \ {<<u, n>>} |-> playlists[k]]

\* `len(current_songs) >= 10`
SongsFull_gt(q) == Len(q) > MaxSongs

SongsFull(q) == Len(q) >= MaxSongs

\* `any(song['url'] == song_info['url'] for song in current_songs)`
HasUrl(q, url) == \E i \in 1..Len(q) : q[i] = url

\* Python's list index i on a list of n elements, as a position 1..n, or 0
\* when it raises IndexError: negative indices count from the end.
PyIndex(n, i) ==
    IF 0 <= i /\ i < n THEN i + 1
    ELSE IF i < 0 /\ 0 - n <= i THEN n + i + 1
    ELSE 0

\* `current_songs.pop(song_index)`
PyPop(q, i) ==
    LET p == PyIndex(Len(q), i)
    IN [j \in 1..(Len(q) - 1) |-> IF j < p THEN q[j] ELSE q[j + 1]]

\* `[current_songs[i] for i in new_order]`
PyPick(q, order) == [j \in 1..Len(order) |-> q[PyIndex(Len(q), order[j])]]
PyPickRaises(q, order) == \E j \in 1..Len(order) : PyIndex(Len(q), order[j]) = 0

\* The index and order arguments tried on a list of n songs.
IndexArgs(n) == {0 - (n + 1), 0 - 1} \cup (0..n)
OrderArgs(n) ==
    [1..n -> IndexArgs(n)]
        \cup {[j \in 1..(n + 1) |-> j - 1]}
        \cup (IF n > 0 THEN {[j \in 1..(n - 1) |-> j - 1]} ELSE {})

PlaylistInit ==
    /\ active_calls = [c \in Chats |-> NoEntry]
    /\ task = EmptyBag
    /\ nops = 0
    /\ accepted = [c \in Chats |-> NoSong]
    /\ workload \in PlaylistWorkloads
    /\ playlists = <<>>
    /\ admins = {}
    /\ reply = NoReply

Answer(op, u, n, result) == [op |-> op, user |-> u, name |-> n, result |-> result]

\* create_playlist (lines 21-51).  `inserted` is FALSE when the INSERT
\* raises for another reason than the unique key (the foreign key on
\* users); both are answered by the except clause.
create_playlist(u, n, inserted) ==
    /\ u \in workload.users /\ n \in NamesOf(u)
    /\ IF AtLimit(CountOf(u))
       THEN /\ reply' = Answer("create", u, n, "LimitExceeded")
            /\ UNCHANGED playlists
       ELSE IF Exists(u, n) \/ ~inserted
       THEN /\ reply' = Answer("create", u, n, "DuplicateName")
            /\ UNCHANGED playlists
       ELSE /\ reply' = Answer("create", u, n, "ok")
            /\ playlists' = WithRow(u, n, <<>>)
    /\ UNCHANGED <<active_calls, task, nops, workload, accepted, admins>>

\* delete_playlist (lines 292-315).
delete_playlist(u, n) ==
    /\ u \in workload.users /\ n \in NamesOf(u)
    /\ IF Exists(u, n)
       THEN /\ reply' = Answer("delete", u, n, "ok")
            /\ playlists' = WithoutRow(u, n)
       ELSE /\ reply' = Answer("delete", u, n, "NotFound")
            /\ UNCHANGED playlists
    /\ UNCHANGED <<active_calls, task, nops, workload, accepted, admins>>

\* add_to_playlist (lines 70-125).
add_to_playlist(u, n, url) ==
    /\ u \in workload.users /\ n \in NamesOf(u)
    /\ url \in workload.urls
    /\ (workload.kind = "fill" /\ Exists(u, n)) => url <= Len(playlists[<<u, n>>]) + 1
    /\ (workload.kind = "edit" /\ Exists(u, n)) => Len(playlists[<<u, n>>]) < MaxEdit
    /\ LET a == Answer("add", u, n, "ok") @@ [url |-> url]
       IN IF ~Exists(u, n)
          THEN /\ reply' = [a EXCEPT !.result = "NotFound"]
               /\ UNCHANGED playlists
          ELSE IF SongsFull(playlists[<<u, n>>])
          THEN /\ reply' = [a EXCEPT !.result = "PlaylistFull"]
               /\ UNCHANGED playlists
          ELSE IF HasUrl(playlists[<<u, n>>], url)
          THEN /\ reply' = [a EXCEPT !.result = "DuplicateSong"]
               /\ UNCHANGED playlists
          ELSE /\ reply' = a
               /\ playlists' = WithRow(u, n, Append(playlists[<<u, n>>], url))
    /\ UNCHANGED <<active_calls, task, nops, workload, accepted, admins>>

\* modify_playlist with action "remove" (lines 217-242, 262-278);
\* `given` is FALSE when song_index is None.
remove_song(u, n, given, i) ==
    /\ workload.kind = "edit"
    /\ u \in workload.users /\ n \in NamesOf(u)
    /\ LET a == Answer("remove", u, n, "ok") @@ [given |-> given, index |-> i]
           q == playlists[<<u, n>>]
       IN IF ~Exists(u, n)
          THEN /\ reply' = [a EXCEPT !.result = "NotFound"]
               /\ UNCHANGED playlists
          ELSE IF ~given \/ i >= Len(q)
          THEN /\ reply' = [a EXCEPT !.result = "IndexOutOfRange"]
               /\ UNCHANGED playlists
          ELSE IF PyIndex(Len(q), i) = 0
          THEN /\ reply' = [a EXCEPT !.result = "Error"]
               /\ UNCHANGED playlists
          ELSE /\ reply' = a
               /\ playlists' = WithRow(u, n, PyPop(q, i))
    /\ UNCHANGED <<active_calls, task, nops, workload, accepted, admins>>

\* modify_playlist with action "reorder" (lines 217-232, 244-278); a
\* new_order of None is answered like the empty list (line 245).
reorder_songs(u, n, order) ==
    /\ workload.kind = "edit"
    /\ u \in workload.users /\ n \in NamesOf(u)
    /\ LET a == Answer("reorder", u, n, "ok") @@ [order |-> order]
           q == playlists[<<u, n>>]
       IN IF ~Exists(u, n)
          THEN /\ reply' = [a EXCEPT !.result = "NotFound"]
               /\ UNCHANGED playlists
          ELSE IF order = <<>> \/ Len(order) # Len(q)
          THEN /\ reply' = [a EXCEPT !.result = "InvalidPermutation"]
               /\ UNCHANGED playlists
          ELSE IF PyPickRaises(q, order)
          THEN /\ reply' = [a EXCEPT !.result = "Error"]
               /\ UNCHANGED playlists
          ELSE /\ reply' = a
               /\ playlists' = WithRow(u, n, PyPick(q, order))
    /\ UNCHANGED <<active_calls, task, nops, workload, accepted, admins>>

PlaylistNext ==
    \/ \E u \in Users, n \in Names, inserted \in BOOLEAN : create_playlist(u, n, inserted)
    \/ \E u \in Users, n \in Names : delete_playlist(u, n)
    \/ \E u \in Users, n \in Names, url \in 1..(MaxSongs + 1) : add_to_playlist(u, n, url)
    \/ \E u \in Users, n \in Names, given \in BOOLEAN, i \in IndexArgs(MaxEdit) :
          remove_song(u, n, given, i)
    \/ \E u \in Users, n \in Names, k \in 0..MaxEdit :
          \E order \in OrderArgs(k) : reorder_songs(u, n, order)

PlaylistSpec == PlaylistInit /\ [][PlaylistNext]_vars

\* ===================================================================
\* Administrators (src/utils/helpers.py, src/modules/admin.py)
\* ===================================================================
OWNER_ID == 0        \* config.py:14

\* The owner and the users 1..NumUsers.
People == 0..NumUsers

\* The rows of table `groups`: no code of the bot inserts one, the table is
\* what the operator put there.
AdminWorkloads == {[kind |-> "admin", groups |-> G] : G \in SUBSET Chats}

\* SELECT * FROM admins WHERE user_id = %s
InAdmins(u) == \E a \in admins : a.user_id = u

\* SELECT g.* FROM groups g JOIN admins a ON g.group_id = %s
\* WHERE a.user_id = %s
IsChatAdmin_group(chat, u) == chat \in workload.groups

IsChatAdmin(chat, u) == chat \in workload.groups /\ InAdmins(u)

\* helpers.is_admin
IsAdmin(chat, u) ==
    IF u = OWNER_ID THEN TRUE
    ELSE IF InAdmins(u) THEN TRUE
    ELSE IsChatAdmin(chat, u)

\* promote_user, lines 30-40: the promoter is the owner or has a row.
Authorized_any(by) == TRUE

Authorized(by) == by = OWNER_ID \/ InAdmins(by)

\* The INSERT of line 62 names no admin_id, and the column is a primary key
\* without a default (models.py:43): where the server accepts the statement
\* the row gets admin_id 0, so a second row collides with the first.
NewAdmin(u, by) == [admin_id |-> 0, user_id |-> u, promoted_by |-> by]
Inserts(row, accepted_by_server) ==
    accepted_by_server /\ \A a \in admins : a.admin_id # row.admin_id

\* The answer of promote_user.
PromoteResult(u, by, inserted) ==
    IF ~Authorized(by) THEN "Unauthorized"
    ELSE IF InAdmins(u) THEN "AlreadyAdmin"
    ELSE IF ~Inserts(NewAdmin(u, by), inserted) THEN "Error"
    ELSE "ok"

AfterPromote(u, by, inserted) ==
    IF PromoteResult(u, by, inserted) = "ok"
    THEN admins \cup {NewAdmin(u, by)}
    ELSE admins

AdminInit ==
    /\ active_calls = [c \in Chats |-> NoEntry]
    /\ task = EmptyBag
    /\ nops = 0
    /\ workload \in AdminWorkloads
    /\ accepted = [c \in Chats |-> NoSong]
    /\ playlists = <<>>
    /\ admins = {}
    /\ reply = NoReply

\* is_admin (helpers.py lines 8-46), as the commands call it.
is_admin(chat, u) ==
    /\ reply' = [op |-> "is_admin", chat |-> chat, user |-> u,
                 result |-> IsAdmin(chat, u)]
    /\ UNCHANGED <<active_calls, task, nops, workload, accepted, playlists, admins>>

\* promote_user (admin.py lines 16-76); `inserted` is FALSE when the
\* server refuses the INSERT.
promote_user(u, by, inserted) ==
    /\ reply' = [op |-> "promote", user |-> u, by |-> by,
                 result |-> PromoteResult(u, by, inserted)]
    /\ admins' = AfterPromote(u, by, inserted)
    /\ UNCHANGED <<active_calls, task, nops, workload, accepted, playlists>>

\* promo_command (commands.py lines 225-253): the sender is checked with
\* is_admin before promote_user is called.  No code removes a row of
\* admins, so the check still holds when promote_user runs.
promo_command(chat, by, u, inserted) ==
    /\ IF by # OWNER_ID /\ ~IsAdmin(chat, by)
       THEN /\ reply' = [op |-> "promo", user |-> u, by |-> by,
                         result |-> "Unauthorized"]
            /\ UNCHANGED admins
       ELSE /\ reply' = [op |-> "promo", user |-> u, by |-> by,
                         result |-> PromoteResult(u, by, inserted)]
            /\ admins' = AfterPromote(u, by, inserted)
    /\ UNCHANGED <<active_calls, task, nops, workload, accepted, playlists>>

AdminNext ==
    \/ \E chat \in Chats, u \in People : is_admin(chat, u)
    \/ \E u \in People, by \in People, inserted \in BOOLEAN :
          promote_user(u, by, inserted)
    \/ \E chat \in Chats, u \in People, by \in People, inserted \in BOOLEAN :
          promo_command(chat, by, u, inserted)

AdminSpec == AdminInit /\ [][AdminNext]_vars

\* ===================================================================
\* Properties
\* ===================================================================
Entry(tk) == active_calls[tk.chat]
Returned == {tk \in Handlers : tk.pc = "done"}

\* C1: in every reachable state, whatever handlers are suspended, every
\* chat's pending queue holds at most 10 tracks.
C1_QueueAtMostTen ==
    \A c \in Chats : Len(active_calls[c].playlist) <= MaxQueued

\* A play is rejected on a full queue while another handler of the chat is
\* suspended.
C1_Witness ==
    \E tk \in Returned :
        /\ tk.ret.tag = "QueueFull"
        /\ tk.overlap
        /\ Len(Entry(tk).playlist) = MaxQueued

\* C2: two play handlers of a chat without entry that run concurrently and
\* resolve distinct tracks A and B, with no collaborator failing: when both
\* have returned, one of A, B is current and the other is the queue.
C2_OneActivatedOtherQueued ==
    \A tk \in Returned :
        ( /\ workload.counted /\ nops = 2
          /\ tk.op = "play" /\ ~tk.had /\ tk.clean
          /\ tk.ret.tag \in {"NowPlaying", "Queued"}
          /\ tk.peer # NoSong /\ tk.peer # tk.ret.song )
        => /\ Entry(tk).present
           /\ \/ Entry(tk).current_song = tk.peer /\ Entry(tk).playlist = <<tk.ret.song>>
              \/ Entry(tk).current_song = tk.ret.song /\ Entry(tk).playlist = <<tk.peer>>

\* C3: in every reachable state, a registered chat whose current track is
\* empty has an empty queue.
C3_IdleHasNoQueue ==
    \A c \in Chats :
        (active_calls[c].present /\ active_calls[c].current_song = NoSong)
        => active_calls[c].playlist = <<>>

\* A registered chat without current track while two handlers of the chat
\* are in flight, one of them suspended in change_stream.
C3_Witness ==
    \E tk \in Handlers :
        /\ tk.pc = "stream" /\ tk.overlap
        /\ Entry(tk).present /\ Entry(tk).current_song = NoSong
        /\ \E x \in Handlers : x.chat = tk.chat /\ x.op = "play" /\ x.pc = "resolve"

\* C4: the queue is FIFO.  While a chat keeps its entry, every change of its
\* queue is the append of the track of a play that returns Queued at the
\* tail, or the removal of the head by a handler that passes exactly that
\* track to change_stream (and, when skip_song is the handler, reports it);
\* and a skip that ran alone and on which no collaborator failed returns
\* with the track it popped as the current track.  (The replacement of the
\* entry by line 104 is not a queue operation.)
\* Handler record tk is the one this step leaves behind: the record of a
\* handler that was called in the step, or that went on from an await.
MovedTo(tk) ==
    \/ /\ BagCardinality(task') > BagCardinality(task)
       /\ CopiesIn(tk, task') > CopiesIn(tk, task)
    \/ \E old \in Handlers : task' = Put(Take(task, old), tk)

C4_QueueStep ==
    \A c \in Chats :
        LET e == active_calls[c]
            f == active_calls'[c]
        IN (e.present /\ f.present /\ f.playlist # e.playlist /\ f # FreshEntry)
           => \/ \E tk \in Handlers' :
                    /\ tk.op = "play" /\ tk.chat = c /\ tk.pc = "done"
                    /\ tk.ret.tag = "Queued"
                    /\ f.playlist = Append(e.playlist, tk.ret.song)
              \/ /\ e.playlist # <<>>
                 /\ f.playlist = Tail(e.playlist)
                 /\ \E tk \in Handlers' :
                       /\ tk.chat = c /\ tk.pc = "stream"
                       /\ MovedTo(tk)
                       /\ tk.song = Head(e.playlist)
                       /\ (tk.op # "play" /\ tk.nstream = 1)
                             => tk.ret = Result("Skipped", Head(e.playlist))

C4_SkipReturn ==
    \A tk \in Returned :
        ( /\ tk.op \in {"skip", "stream_end"}
          /\ tk.ret.tag = "Skipped"
          /\ ~tk.overlap /\ tk.clean )
        => /\ Entry(tk).present
           /\ Entry(tk).current_song = tk.ret.song

C5_StopAbsentIsRejected ==
    \A tk \in Returned :
        (tk.op = "stop" /\ ~tk.had /\ ~tk.overlap)
        => /\ tk.ret.tag = "NoActiveCall"
           /\ ~tk.left
           /\ ~Entry(tk).present

\* C6: when a stop on a registered chat returns, the chat has no entry and
\* the result is Stopped, whether leave_group_call returned or raised.
C6_StopRemovesEntry ==
    \A tk \in Returned :
        (tk.op = "stop" /\ tk.had)
        => /\ ~Entry(tk).present
           /\ tk.ret.tag = "Stopped"

\* C7: a skip on a registered chat whose queue is empty calls
\* leave_group_call, never change_stream, returns QueueEmpty and leaves the
\* chat without entry.
C7_SkipEmptyIsStop ==
    \A tk \in Returned :
        (tk.op = "skip" /\ tk.ret.tag = "QueueEmpty")
        => /\ tk.left
           /\ ~tk.streamed
           /\ ~Entry(tk).present

\* C8: a play that was suspended in extract_info when a stop deleted the
\* chat's entry neither joins the call nor calls change_stream afterwards.
C8_ResolutionDiscarded ==
    \A tk \in Handlers :
        tk.removed => (~tk.joined /\ ~tk.streamed)

\* C9: a handler that ran alone, started an activation on a chat with n0
\* queued tracks and saw every change_stream fail has called change_stream
\* at most n0 + 1 times, has called leave_group_call, and returns with the
\* chat removed from the registry.
C9_FailureChainEndsInStop ==
    \A tk \in Returned :
        (tk.streamed /\ ~tk.sok /\ ~tk.overlap)
        => /\ tk.nstream <= tk.n0 + 1
           /\ tk.left
           /\ ~Entry(tk).present

\* C10: a handler that returns NowPlaying or Skipped with track T returns
\* with the chat registered and T as its current track.
C10_ReportedTrackIsCurrent ==
    \A tk \in Returned :
        tk.ret.tag \in {"NowPlaying", "Skipped"}
        => /\ Entry(tk).present
           /\ Entry(tk).current_song = tk.ret.song

\* The handlers of chat c that are suspended between their first read of the
\* chat's entry and their last write of it: a play from line 101 on (in
\* join_group_call or in change_stream), a skip or stream-end handler in
\* change_stream or in leave_group_call.  stop_playback reads the registry
\* only after its await.
InBody(tk) ==
    \/ tk.pc \in {"join", "stream"}
    \/ tk.pc = "leave" /\ tk.op # "stop"

BodiesOf(c) ==
    BagCardinality([x \in {z \in DOMAIN task : z.chat = c /\ InBody(z)} |-> task[x]])

\* C11: in every state where no handler of a chat is suspended at an await,
\* the chat has no entry or has a current track.
C11_IdleIsTransient ==
    \A c \in Chats :
        HandlersOf(c) = {}
        => (~active_calls[c].present \/ active_calls[c].current_song # NoSong)

\* C12: the bodies of the handlers of one chat exclude each other: at most
\* one handler of a chat is suspended between its first read and its last
\* write of the chat's entry, so at most one is between its change_stream
\* call and the write of current_song.
C12_BodiesExclusive ==
    \A c \in Chats : BodiesOf(c) <= 1

\* C13: a chat that has a current track and stays registered keeps a
\* current track: no step resets current_song to None or replaces the entry
\* by a fresh one.
C13_PlayingStep ==
    \A c \in Chats :
        (HasCurrent(active_calls[c]) /\ active_calls'[c].present)
        => HasCurrent(active_calls'[c])

C13_PlayingStaysPlaying == [][C13_PlayingStep]_vars

\* This step takes handler record `old` from its await to the different
\* record `new`.
Went(old, new) == old # new /\ task' = Put(Take(task, old), new)

\* An await of handler `old` returned and left it as `new` (the step in
\* which the transport takes up the track of a pending change_stream does
\* not resume the handler).
Resumed(old, new) == Went(old, new) /\ (new.acc => old.acc)

\* This step is the call of a handler that returns without an await, and
\* `new` is its record.
CalledAndReturned(new) ==
    /\ BagCardinality(task') > BagCardinality(task)
    /\ new.pc = "done"

\* C14: a play on a chat without entry whose join_group_call fails returns
\* NoActiveCall, leaves the registry as it is, and has called neither
\* change_stream nor leave_group_call.
C14_JoinStep ==
    \A old \in Handlers, new \in Handlers' :
        (old.pc = "join" /\ Went(old, new) /\ ~new.clean)
        => /\ new.pc = "done"
           /\ new.ret = Result("NoActiveCall", NoSong)
           /\ ~new.streamed /\ ~new.left
           /\ active_calls' = active_calls

C14_JoinFailureIsNoOp == [][C14_JoinStep]_vars

\* A play that ran alone returns NoActiveCall after its join and the chat
\* has no entry.
C14_Witness ==
    \E tk \in Returned :
        /\ tk.op = "play" /\ tk.ret.tag = "NoActiveCall"
        /\ tk.joined /\ ~tk.had /\ ~tk.overlap
        /\ ~Entry(tk).present

\* C15: when extract_info returns None, play_song returns ResolutionError
\* after that one extract_info call, without join_group_call or
\* change_stream, and leaves the registry as it is.
C15_ResolveStep ==
    \A old \in Handlers, new \in Handlers' :
        (old.pc = "resolve" /\ Went(old, new) /\ ~new.clean)
        => /\ new.pc = "done"
           /\ new.ret = Result("ResolutionError", NoSong)
           /\ new.resolves = 1
           /\ ~new.joined /\ ~new.streamed /\ ~new.left
           /\ active_calls' = active_calls

C15_ResolutionErrorIsNoOp == [][C15_ResolveStep]_vars

\* A play returns ResolutionError on a chat that is playing and has a
\* track queued.
C15_Witness ==
    \E tk \in Returned :
        /\ tk.ret.tag = "ResolutionError" /\ tk.resolves = 1
        /\ HasCurrent(Entry(tk))
        /\ Entry(tk).playlist # <<>>

\* C16: a play whose track is resolved while the chat has a current track
\* and 10 queued tracks returns QueueFull and leaves the registry as it is.
C16_FullStep ==
    \A old \in Handlers, new \in Handlers' :
        ( /\ old.pc = "resolve" /\ Went(old, new) /\ new.clean
          /\ HasCurrent(active_calls[old.chat])
          /\ Len(active_calls[old.chat].playlist) = MaxQueued )
        => /\ new.pc = "done"
           /\ new.ret = Result("QueueFull", NoSong)
           /\ active_calls' = active_calls

C16_QueueFullIsNoOp == [][C16_FullStep]_vars

\* A play that ran alone returns QueueFull with the 10 tracks still queued
\* behind the current track.
C16_Witness ==
    \E tk \in Returned :
        /\ tk.ret.tag = "QueueFull" /\ ~tk.overlap
        /\ HasCurrent(Entry(tk))
        /\ Len(Entry(tk).playlist) = MaxQueued

\* C17: a skip or a stream-end notification on a chat without entry returns
\* NoActiveCall at once, without change_stream, leave_group_call or
\* join_group_call, and leaves the registry as it is.
C17_Returns ==
    \A tk \in Handlers :
        (tk.op \in {"skip", "stream_end"} /\ ~tk.had)
        => /\ tk.pc = "done"
           /\ tk.ret = Result("NoActiveCall", NoSong)
           /\ ~tk.streamed /\ ~tk.left /\ ~tk.joined

C17_CallStep ==
    \A new \in Handlers' :
        (CalledAndReturned(new) /\ new.op \in {"skip", "stream_end"} /\ ~new.had)
        => active_calls' = active_calls

C17_SkipAbsentIsNoOp == []C17_Returns /\ [][C17_CallStep]_vars

\* A stream-end notification returns NoActiveCall after a stop has deleted
\* the chat's entry (under a play that is still suspended in extract_info).
C17_Witness ==
    \E tk \in Returned :
        /\ tk.op = "stream_end" /\ ~tk.had
        /\ tk.ret.tag = "NoActiveCall"
        /\ ~Entry(tk).present
        /\ \E x \in Handlers : x.chat = tk.chat /\ x.removed /\ x.pc = "resolve"

\* The number of stream-end handlers of chat c in bag B.
StreamEnds(c, B) ==
    BagCardinality([x \in {z \in DOMAIN B : z.chat = c /\ z.op = "stream_end"} |-> B[x]])

AsSkip(tk) == [tk EXCEPT !.op = "skip"]
AsStreamEnd(tk) == [tk EXCEPT !.op = "stream_end"]

\* C18: a stream-end notification is a skip.  The call of on_stream_end
\* leaves the registry and the handler (its await, the track passed to
\* change_stream, its transport calls) that the call of skip_song leaves in
\* the same state; and every later step of a stream-end handler, for every
\* outcome of change_stream, of the database write and of leave_group_call,
\* is the step of a skip handler at the same await in the same state.
C18_CallStep ==
    \A c \in Chats :
        StreamEnds(c, task') > StreamEnds(c, task)
        => LET tk == [NewTask EXCEPT !.op = "skip", !.chat = c,
                                     !.had = active_calls[c].present]
               r == SkipStep(active_calls, tk, TRUE)
           IN /\ active_calls' = r.reg
              /\ task' = Started(c, AsStreamEnd(r.tk))

C18_AwaitStep ==
    \A old \in Handlers, new \in Handlers' :
        (old.op = "stream_end" /\ Resumed(old, new))
        => \E ok \in BOOLEAN, dbok \in BOOLEAN :
              LET r == IF old.pc = "stream"
                       THEN StreamStep(active_calls, AsSkip(old), ok, dbok)
                       ELSE LeaveStep(active_calls, AsSkip(old), ok)
              IN /\ active_calls' = r.reg
                 /\ AsSkip(new) = r.tk

C18_StreamEndIsSkip == [][C18_CallStep /\ C18_AwaitStep]_vars

\* A stream-end handler popped a track, saw change_stream fail and ended
\* in leave_group_call.
C18_Witness ==
    \E tk \in Returned :
        /\ tk.op = "stream_end" /\ tk.had
        /\ tk.streamed /\ ~tk.sok /\ tk.left

\* C19: chats are independent.  A step in which the handlers of chat X
\* change leaves the entry of every other chat Y as it is; a step changes
\* the entry of at most one chat, and only of a chat that has a handler.
C19_Step ==
    /\ \A X \in Chats, Y \in Chats :
          (X # Y /\ BagOf(X, task') # BagOf(X, task))
          => active_calls'[Y] = active_calls[Y]
    /\ \A c \in Chats :
          active_calls'[c] # active_calls[c]
          => /\ \A d \in Chats \ {c} : active_calls'[d] = active_calls[d]
             /\ \E tk \in Handlers' : tk.chat = c

C19_ChatsIndependent == [][C19_Step]_vars

\* A stop has deleted the entry of one chat while a handler of another
\* chat is suspended in change_stream and that chat keeps its entry.
C19_Witness ==
    \E tk \in Returned, y \in Handlers :
        /\ tk.chat # y.chat
        /\ tk.op = "stop" /\ tk.had /\ ~Entry(tk).present
        /\ y.pc = "stream" /\ Entry(y).present

\* C20: no failure escapes a handler.  Every handler that returns returns
\* one of the results of its operation, whatever failed and also when the
\* chat's entry was removed while it was suspended; and every handler
\* returns: each return of an await takes the handler to a later await or
\* to its return, or back to change_stream with one queued track less.
TaggedResults(op) ==
    CASE op = "play" -> {"NowPlaying", "Queued", "ResolutionError", "NoActiveCall", "QueueFull"}
      [] op = "stop" -> {"Stopped", "NoActiveCall"}
      [] OTHER       -> {"Skipped", "QueueEmpty", "NoActiveCall"}

Rank(pc) ==
    CASE pc = "resolve" -> 0
      [] pc = "join"    -> 1
      [] pc = "stream"  -> 2
      [] pc = "leave"   -> 3
      [] OTHER          -> 4

C20_Returns ==
    \A tk \in Returned : tk.ret.tag \in TaggedResults(tk.op)

C20_Progress ==
    /\ \A old \in Handlers, new \in Handlers' :
          Resumed(old, new)
          => \/ Rank(new.pc) > Rank(old.pc)
             \/ /\ old.pc = "stream" /\ new.pc = "stream"
                /\ Len(active_calls'[old.chat].playlist) < Len(active_calls[old.chat].playlist)
    /\ (task' = task /\ active_calls' # active_calls)
          => \E c \in Chats :
                Len(active_calls'[c].playlist) < Len(active_calls[c].playlist)

C26_AcceptedTrackStays ==
    \A tk \in Returned :
        (~tk.overlap /\ tk.sok /\ tk.nstream = 1)
        => /\ ~tk.left
           /\ Entry(tk).present
           /\ Entry(tk).current_song = tk.song

\* C28: no queued track is lost.  While a chat keeps an entry, a step that
\* shortens its queue removes the head only, and a handler of the chat
\* passes exactly that track to change_stream in the same step.
C28_QueueStep ==
    \A c \in Chats :
        LET e == active_calls[c]
            f == active_calls'[c]
        IN (e.present /\ f.present /\ Len(f.playlist) < Len(e.playlist))
           => /\ f.playlist = Tail(e.playlist)
              /\ \E tk \in Handlers' :
                    /\ tk.chat = c /\ tk.pc = "stream"
                    /\ MovedTo(tk)
                    /\ tk.song = Head(e.playlist)

C28_NoQueuedTrackLost == [][C28_QueueStep]_vars

\* C29: a stop ends the session.  A handler that was suspended in
\* change_stream when a stop deleted the chat's entry, and was then the
\* only handler of the chat, does not write the current track of an entry
\* created afterwards.
C29_Step ==
    \A old \in Handlers, new \in Handlers' :
        (old.pc = "stream" /\ old.crossed /\ Went(old, new))
        => active_calls'[old.chat].current_song = active_calls[old.chat].current_song

C29_StopEndsSession == [][C29_Step]_vars

\* C30: current_song is written only with the track of a handler whose
\* change_stream call returns in that step; and whenever a chat is
\* registered and no handler of it is suspended, its current track is the
\* track of the transport's active stream.
C30_WriteStep ==
    \A c \in Chats :
        ( /\ active_calls'[c].present
          /\ active_calls'[c].current_song # NoSong
          /\ active_calls'[c].current_song # active_calls[c].current_song )
        => \E old \in Handlers :
              /\ old.chat = c /\ old.pc = "stream"
              /\ old.song = active_calls'[c].current_song
              /\ \E new \in Handlers' : task' = Put(Take(task, old), new)

C30_Agree ==
    \A c \in Chats :
        (active_calls[c].present /\ HandlersOf(c) = {})
        => active_calls[c].current_song = accepted[c]

C30_CurrentIsActiveStream == [][C30_WriteStep]_vars /\ []C30_Agree

\* The playlists of user u and the songs of playlist (u, n), read from the
\* table.
Owned(u) == {k \in DOMAIN playlists : k[1] = u}
Songs(u, n) == playlists[<<u, n>>]
Kept(u, n, q) ==
    /\ DOMAIN playlists' = DOMAIN playlists
    /\ playlists'[<<u, n>>] = q
    /\ \A k \in DOMAIN playlists \ {<<u, n>>} : playlists'[k] = playlists[k]

\* C22: no user owns more than 5 playlists, and a create_playlist by a
\* user who owns 5 returns LimitExceeded and leaves the table as it is.
C22_AtMostFive ==
    \A u \in Users : Cardinality(Owned(u)) <= 5

C22_CreateStep ==
    (reply'.op = "create" /\ Cardinality(Owned(reply'.user)) = 5)
    => /\ reply'.result = "LimitExceeded"
       /\ playlists' = playlists

C22_PlaylistLimit == []C22_AtMostFive /\ [][C22_CreateStep]_vars

\* A user who owns 5 playlists is refused a sixth name while another user
\* owns a playlist too.
C22_Witness ==
    /\ reply.op = "create" /\ reply.result = "LimitExceeded"
    /\ Cardinality(Owned(reply.user)) = 5
    /\ <<reply.user, reply.name>> \notin DOMAIN playlists
    /\ \E u \in Users \ {reply.user} : Owned(u) # {}

\* C23: add_to_playlist appends the song at the tail exactly when the
\* playlist exists, holds fewer than 10 songs and has no song of that url;
\* otherwise it returns NotFound, PlaylistFull or DuplicateSong and leaves
\* the table as it is; no playlist holds more than 10 songs.
C23_AtMostTen ==
    \A k \in DOMAIN playlists : Len(playlists[k]) <= 10

C23_AddStep ==
    reply'.op = "add"
    => LET u == reply'.user
           n == reply'.name
           there == <<u, n>> \in DOMAIN playlists
           full == Len(Songs(u, n)) >= 10
           dup == \E i \in 1..Len(Songs(u, n)) : Songs(u, n)[i] = reply'.url
       IN IF there /\ ~full /\ ~dup
          THEN /\ reply'.result = "ok"
               /\ Kept(u, n, Songs(u, n) \o <<reply'.url>>)
          ELSE /\ playlists' = playlists
               /\ ~there => reply'.result = "NotFound"
               /\ (there /\ full /\ ~dup) => reply'.result = "PlaylistFull"
               /\ (there /\ dup /\ ~full) => reply'.result = "DuplicateSong"
               /\ (there /\ dup /\ full) => reply'.result \in {"PlaylistFull", "DuplicateSong"}

C23_AddIsGuarded == []C23_AtMostTen /\ [][C23_AddStep]_vars

\* An eleventh, new song is refused by a playlist of 10.
C23_Witness ==
    /\ reply.op = "add" /\ reply.result = "PlaylistFull"
    /\ Len(Songs(reply.user, reply.name)) = 10
    /\ \A i \in 1..10 : Songs(reply.user, reply.name)[i] # reply.url

\* `order` lists each of the indices 0..n-1 once.
IsPermutation(order, n) ==
    /\ Len(order) = n
    /\ \A i \in 0..(n - 1) : \E j \in 1..n : order[j] = i

\* C24: a reorder succeeds only with a permutation of 0..n-1 and then
\* leaves the songs in the requested order; any other argument is refused
\* and leaves the playlist as it is.
C24_ReorderStep ==
    (reply'.op = "reorder" /\ <<reply'.user, reply'.name>> \in DOMAIN playlists)
    => LET u == reply'.user
           n == reply'.name
           q == Songs(u, n)
           order == reply'.order
       IN IF reply'.result = "ok"
          THEN /\ IsPermutation(order, Len(q))
               /\ Kept(u, n, [j \in 1..Len(q) |-> q[order[j] + 1]])
          ELSE /\ reply'.result \in {"InvalidPermutation", "Error"}
               /\ playlists' = playlists

C24_ReorderIsPermutation == [][C24_ReorderStep]_vars

\* C25: a remove with an index in 0..n-1 deletes the song at that position
\* and keeps the others in order; with any other index, or none, it is
\* refused and leaves the playlist as it is.
C25_RemoveStep ==
    (reply'.op = "remove" /\ <<reply'.user, reply'.name>> \in DOMAIN playlists)
    => LET u == reply'.user
           n == reply'.name
           q == Songs(u, n)
           i == reply'.index
       IN IF reply'.given /\ 0 <= i /\ i < Len(q)
          THEN /\ reply'.result = "ok"
               /\ Kept(u, n, SubSeq(q, 1, i) \o SubSeq(q, i + 2, Len(q)))
          ELSE /\ reply'.result \in {"IndexOutOfRange", "Error"}
               /\ playlists' = playlists

C25_RemoveIsExact == [][C25_RemoveStep]_vars

\* C21: is_admin answers TRUE exactly for the owner and for the users of
\* the admins table, and for one user and one table every chat gets the
\* same answer.
C21_Exact ==
    \A c \in Chats, u \in People :
        IsAdmin(c, u) <=> (u = OWNER_ID \/ \E a \in admins : a.user_id = u)

C21_AnyChat ==
    \A c1 \in Chats, c2 \in Chats, u \in People : IsAdmin(c1, u) = IsAdmin(c2, u)

C21_Answered ==
    reply.op = "is_admin"
    => reply.result = (reply.user = OWNER_ID \/ \E a \in admins : a.user_id = reply.user)

C27_Provenance ==
    \A a \in admins :
        a.promoted_by = OWNER_ID \/ \E b \in admins : b.user_id = a.promoted_by

C27_PromoteStep ==
    LET mayPromote(by) == by = OWNER_ID \/ \E a \in admins : a.user_id = by
        isAdmin(u) == \E a \in admins : a.user_id = u
    IN /\ admins' # admins
          => \E a \in admins' \ admins :
                /\ admins' = admins \cup {a}
                /\ mayPromote(a.promoted_by)
                /\ ~isAdmin(a.user_id)
                /\ reply'.op \in {"promote", "promo"} /\ reply'.result = "ok"
                /\ reply'.user = a.user_id /\ reply'.by = a.promoted_by
       /\ (reply'.op \in {"promote", "promo"}
           /\ (~mayPromote(reply'.by) \/ isAdmin(reply'.user)))
          => /\ reply'.result \in {"Unauthorized", "AlreadyAdmin"}
             /\ admins' = admins

C27_OnlyAdminsPromote == []C27_Provenance /\ [][C27_PromoteStep]_vars

\* A user without a row is refused as promoter while the table holds a row
\* the owner added.
C27_Witness ==
    /\ reply.op = "promote" /\ reply.result = "Unauthorized"
    /\ \E a \in admins : a.promoted_by = OWNER_ID /\ a.user_id # OWNER_ID
    /\ ~\E a \in admins : a.user_id = reply.by
====
